---- MODULE Spec2Model ----
(***************************************************************************)
(* Price resolution of portfolio_app.py: get_current_prices dispatches one *)
(* fetch_current_price lookup per distinct ISIN of the holdings table to a *)
(* ThreadPoolExecutor of three workers and records each lookup's result in *)
(* price_cache and in the 'Current Price (Rs.)' column.                    *)
(*                                                                         *)
(* A lookup runs between suspension points: the search request, the price  *)
(* fetches (yfinance) and the backoff sleeps.  The network is the          *)
(* environment: the candidate list Yahoo knows for an ISIN is fixed for    *)
(* the run, while the status code, an exception and the fetched price are  *)
(* chosen anew at every call.  A run bounds the number of calls that the   *)
(* network fails (faults): a 429, another bad status, an exception, a      *)
(* missing price.                                                          *)
(***************************************************************************)
EXTENDS Integers, Sequences, FiniteSets, TLC

(* ------------------------------ bounds -------------------------------- *)
\* rows of the holdings table in a pool run
MaxRows == 4
\* candidates in one search response in a single-lookup run
MaxQuotes == 2
\* calls the network fails in a pool run: a 429, another bad status, an
\* exception, or a missing price
MaxFaults == 1
\* rows of the holdings table in a small batch
MaxBatchRows == 2

(* ------------------------- program constants -------------------------- *)
max_retries == 3
retry_delay == 2
max_workers == 3
throttle_every == 5

\* Python's None, as a return value and as a cell of the price column;
\* a truthy price is a positive number.
None == 0
\* outcome of a price fetch that raised, in tried
Raised == -1

(* ------------------------- search candidates -------------------------- *)
\* a symbol is a stem and a suffix, "RELIANCE.NS" = <<"RELIANCE", ".NS">>
EndsWith(symbol, suffix) == Len(symbol) > 0 /\ symbol[Len(symbol)] = suffix

Quote(exchange, stem, suffix) == [exchange |-> exchange, symbol |-> <<stem, suffix>>]

Candidates ==
    { Quote("NSI", "A", ".NS"), Quote("NSI", "B", ".NS"),
      Quote("BSE", "C", ".BO"), Quote("BSE", "D", ".BO"),
      Quote("NSI", "E", ".BO"), Quote("NYQ", "F", "") }

IsNSE(quote) == quote.exchange = "NSI" /\ EndsWith(quote.symbol, ".NS")
IsBSE(quote) == quote.exchange = "BSE" /\ EndsWith(quote.symbol, ".BO")

\* variant: the test of the exchange alone
FirstNSEMut(qs) ==
    IF \E k \in 1..Len(qs) : qs[k].exchange = "NSI"
    THEN CHOOSE k \in 1..Len(qs) :
             qs[k].exchange = "NSI" /\ \A j \in 1..(k-1) : qs[j].exchange # "NSI"
    ELSE 0

\* index of the first NSE candidate of a response, 0 when there is none
FirstNSE(qs) ==
    IF \E k \in 1..Len(qs) : IsNSE(qs[k])
    THEN CHOOSE k \in 1..Len(qs) : IsNSE(qs[k]) /\ \A j \in 1..(k-1) : ~IsNSE(qs[j])
    ELSE 0

\* index of the first BSE candidate at or after position from, 0 when none
NextBSE(qs, from) ==
    IF \E k \in from..Len(qs) : IsBSE(qs[k])
    THEN CHOOSE k \in from..Len(qs) : IsBSE(qs[k]) /\ \A j \in from..(k-1) : ~IsBSE(qs[j])
    ELSE 0

(* --------------------------- the holdings ----------------------------- *)
Range(s) == { s[k] : k \in 1..Len(s) }

\* variant: df['ISIN'] as it is, a value per row
UniqueMut(s) == s

\* df['ISIN'].unique(): the distinct values in order of first appearance
RECURSIVE Unique(_)
Unique(s) ==
    IF s = <<>> THEN <<>>
    ELSE LET init == SubSeq(s, 1, Len(s) - 1)
             u    == Unique(init)
             x    == s[Len(s)]
         IN  IF x \in Range(u) THEN u ELSE Append(u, x)

\* isin_to_rows[isin]: the rows that hold this ISIN
IsinToRows(rs, isin) == { r \in 1..Len(rs) : rs[r] = isin }

\* Balance and Rate (Rs.) of a row
Balance(r) == r
Rate(r) == 10 + r

SeqsUpTo(S, n) == UNION { [1..m -> S] : m \in 0..n }

\* ISINs are opaque: a table is taken up to renaming, its ISINs numbered in
\* order of first appearance
Tables(n) ==
    { s \in SeqsUpTo(1..n, n) :
        /\ s # <<>>
        /\ \A k \in 1..Len(s) : s[k] = 1 \/ \E j \in 1..(k-1) : s[j] = s[k] - 1 }

(* ------------------------------ state --------------------------------- *)
VARIABLES
    rows,           \* df['ISIN'], one ISIN per row
    quotes,         \* environment: ISIN -> candidate list the search knows
    prices,         \* environment: the truthy regularMarketPrice values
    faults,         \* environment: 429s and exceptions still to come
    mainpc,         \* get_current_prices: "start", "collect", "returned"
    future_to_isin, \* task -> ISIN
    pc,             \* task -> "queued", "search", "sleep", "fetchNSE",
                    \*         "fetchBSE", "returned", "collected"
    attempt,        \* task -> loop variable of fetch_current_price
    bse,            \* task -> index of the BSE candidate being fetched
    ret,            \* task -> value returned by fetch_current_price
    reason,         \* task -> the return statement taken
    stats,          \* task -> what the lookup has done so far: the number of
                    \*   searches (requests.get calls), of responses by
                    \*   status (r200, r429, rbad), of exceptions caught
                    \*   (raised) and of price fetches (fetches)
    tried,          \* task -> the price fetches of the current attempt:
                    \*   candidate index and outcome, in order
    sleeps,         \* task -> each backoff time.sleep: attempt and delay
    price_cache,    \* dict ISIN -> price or None
    writes,         \* ISIN -> number of assignments to price_cache[isin]
    dfPrice,        \* row -> df['Current Price (Rs.)']
    dfValue,        \* row -> df['Current Value (Rs.)'], None before it is set
    completed,      \* counter of the as_completed loop
    throttled       \* number of time.sleep(1) pauses of the main thread

envVars == <<rows, quotes, prices>>
taskVars == <<pc, attempt, bse, ret, reason, stats, tried, sleeps>>
mainVars == <<mainpc, future_to_isin, price_cache, writes, dfPrice, dfValue, completed, throttled>>
vars == <<rows, quotes, prices, faults, mainpc, future_to_isin, pc, attempt, bse, ret, reason,
          stats, tried, sleeps, price_cache, writes, dfPrice, dfValue,
          completed, throttled>>

Tasks == DOMAIN future_to_isin

InitState ==
    /\ mainpc = "start"
    /\ future_to_isin = <<>>
    /\ pc = <<>>
    /\ attempt = <<>>
    /\ bse = <<>>
    /\ ret = <<>>
    /\ reason = <<>>
    /\ stats = <<>>
    /\ tried = <<>>
    /\ sleeps = <<>>
    /\ price_cache = <<>>
    /\ writes = [i \in Range(rows) |-> 0]
    /\ dfPrice = [r \in 1..Len(rows) |-> None]
    /\ dfValue = [r \in 1..Len(rows) |-> None]
    /\ completed = 0
    /\ throttled = 0

\* responses of a run of several lookups
PoolQuotes == { <<>>, <<Quote("BSE", "C", ".BO"), Quote("NSI", "A", ".NS")>> }

\* as many faults as the calls of one lookup: in each attempt a search and a
\* price fetch per candidate
AllCalls == max_retries * (MaxQuotes + 1)

\* a pool run: any table of up to MaxRows rows, every ISIN listed on both
\* exchanges, a network that fails at most MaxFaults calls
Init ==
    /\ rows \in Tables(MaxRows)
    /\ quotes = [i \in Range(rows) |-> <<Quote("BSE", "C", ".BO"), Quote("NSI", "A", ".NS")>>]
    /\ prices = {1}
    /\ faults = MaxFaults
    /\ InitState

\* a small batch: any table of up to MaxBatchRows rows, a network that fails
\* as many calls as one lookup has attempts
InitBatch ==
    /\ rows \in Tables(MaxBatchRows)
    /\ quotes \in [Range(rows) -> PoolQuotes]
    /\ prices = {1}
    /\ faults = max_retries
    /\ InitState

\* a single lookup: a one-row table, any response of up to MaxQuotes
\* candidates, a network that may fail at every call
InitLookup ==
    /\ rows = <<1>>
    /\ quotes \in [{1} -> SeqsUpTo(Candidates, MaxQuotes)]
    /\ prices = {1, 2}
    /\ faults = AllCalls
    /\ InitState

\* the network may fail this call
CanFail == faults > 0
Fail == faults' = faults - 1

\* a lookup that has not begun
NoStats == [searches |-> 0, r200 |-> 0, r429 |-> 0, rbad |-> 0, raised |-> 0, fetches |-> 0]

(* ------------------------- get_current_prices ------------------------- *)
\* lines 192-211: one future per element of unique_isins
Submit ==
    /\ mainpc = "start"
    /\ LET unique_isins == Unique(rows)
           ts == 1..Len(unique_isins)
       IN  /\ future_to_isin' = [t \in ts |-> unique_isins[t]]
           /\ pc' = [t \in ts |-> "queued"]
           /\ attempt' = [t \in ts |-> 0]
           /\ bse' = [t \in ts |-> 0]
           /\ ret' = [t \in ts |-> None]
           /\ reason' = [t \in ts |-> "none"]
           /\ stats' = [t \in ts |-> NoStats]
           /\ tried' = [t \in ts |-> <<>>]
           /\ sleeps' = [t \in ts |-> <<>>]
    /\ mainpc' = "collect"
    /\ UNCHANGED <<envVars, faults, price_cache, writes, dfPrice, dfValue, completed, throttled>>

InFlight == { t \in Tasks : pc[t] \in {"search", "sleep", "fetchNSE", "fetchBSE"} }

\* variant: one worker more
WorkerFreeMut(n) == n <= max_workers

\* ThreadPoolExecutor(max_workers=3): a worker is free
WorkerFree(n) == n < max_workers

\* a free worker takes the oldest queued task and enters the for loop
Start(t) ==
    /\ pc[t] = "queued"
    /\ \A u \in Tasks : u < t => pc[u] # "queued"
    /\ WorkerFree(Cardinality(InFlight))
    /\ pc' = [pc EXCEPT ![t] = "search"]
    /\ UNCHANGED <<envVars, faults, mainVars, attempt, bse, ret, reason, stats, tried, sleeps>>

(* ------------------------- fetch_current_price ------------------------ *)
\* variant: attempt < max_retries
AttemptsRemainMut(a) == a < max_retries

\* the for loop has another iteration after this one
AttemptsRemain(a) == a < max_retries - 1

\* line 136
BackoffRateLimit(a) == retry_delay * (a + 1)

\* variant: retry_delay * attempt
BackoffExceptionMut(a) == retry_delay * a

\* line 181
BackoffException(a) == retry_delay * (a + 1)

Return(t, value, why) ==
    /\ pc' = [pc EXCEPT ![t] = "returned"]
    /\ ret' = [ret EXCEPT ![t] = value]
    /\ reason' = [reason EXCEPT ![t] = why]

\* time.sleep(delay); continue
Backoff(t, delay) ==
    /\ pc' = [pc EXCEPT ![t] = "sleep"]
    /\ sleeps' = [sleeps EXCEPT ![t] = Append(@, [attempt |-> attempt[t], delay |-> delay])]
    /\ UNCHANGED <<ret, reason>>

\* lines 134-140: the search answers 429
SearchRateLimited(t) ==
    /\ pc[t] = "search"
    /\ CanFail
    /\ Fail
    /\ stats' = [stats EXCEPT ![t].searches = @ + 1, ![t].r429 = @ + 1]
    /\ IF AttemptsRemain(attempt[t])
       THEN Backoff(t, BackoffRateLimit(attempt[t]))
       ELSE /\ Return(t, None, "rate_limited")
            /\ UNCHANGED sleeps
    /\ UNCHANGED <<envVars, mainVars, attempt, bse, tried>>

\* lines 142-144: another status than 200 and 429
SearchBadStatus(t) ==
    /\ pc[t] = "search"
    /\ CanFail
    /\ Fail
    /\ stats' = [stats EXCEPT ![t].searches = @ + 1, ![t].rbad = @ + 1]
    /\ Return(t, None, "status")
    /\ UNCHANGED <<envVars, mainVars, attempt, bse, tried, sleeps>>

\* variant: an except clause that gives up at once
OnExceptionMut(t) ==
    /\ Return(t, None, "exception")
    /\ UNCHANGED sleeps

\* lines 179-185: the except clause
OnException(t) ==
    IF AttemptsRemain(attempt[t])
    THEN Backoff(t, BackoffException(attempt[t]))
    ELSE /\ Return(t, None, "exception")
         /\ UNCHANGED sleeps

\* line 132 raises
SearchRaises(t) ==
    /\ pc[t] = "search"
    /\ CanFail
    /\ Fail
    /\ stats' = [stats EXCEPT ![t].searches = @ + 1, ![t].raised = @ + 1]
    /\ OnException(t)
    /\ UNCHANGED <<envVars, mainVars, attempt, bse, tried>>

\* lines 167-177 from candidate position from on: the next BSE fetch, or the
\* end of the loop
EnterBSE(t, qs, from) ==
    IF NextBSE(qs, from) # 0
    THEN /\ pc' = [pc EXCEPT ![t] = "fetchBSE"]
         /\ bse' = [bse EXCEPT ![t] = NextBSE(qs, from)]
         /\ UNCHANGED <<ret, reason>>
    ELSE /\ Return(t, None, "no_price")
         /\ UNCHANGED bse

\* variant: an empty response handled as a failed attempt
OnNoQuotesMut(t) == OnException(t)

\* lines 149-151: no candidate
OnNoQuotes(t) ==
    /\ Return(t, None, "no_quotes")
    /\ UNCHANGED sleeps

\* lines 146-160: status 200, up to the first price fetch
SearchOk(t) ==
    /\ pc[t] = "search"
    /\ stats' = [stats EXCEPT ![t].searches = @ + 1, ![t].r200 = @ + 1]
    /\ LET qs == quotes[future_to_isin[t]]
       IN  IF qs = <<>>
           THEN /\ OnNoQuotes(t)
                /\ UNCHANGED bse
           ELSE IF FirstNSE(qs) # 0
           THEN /\ pc' = [pc EXCEPT ![t] = "fetchNSE"]
                /\ UNCHANGED <<bse, ret, reason, sleeps>>
           ELSE /\ EnterBSE(t, qs, 1)
                /\ UNCHANGED sleeps
    /\ UNCHANGED <<envVars, faults, mainVars, attempt, tried>>

\* stock.info.get('regularMarketPrice') of candidate k has been asked for
Fetched(t, k, out) ==
    /\ tried' = [tried EXCEPT ![t] = Append(@, [idx |-> k, out |-> out])]
    /\ stats' = [stats EXCEPT ![t].fetches = @ + 1,
                              ![t].raised = IF out = Raised THEN @ + 1 ELSE @]

\* what stock.info.get('regularMarketPrice') may give: a price, or None
Offered == prices \cup (IF CanFail THEN {None} ELSE {})

\* lines 162-165: the NSE ticker's regularMarketPrice
FetchNSE(t) ==
    /\ pc[t] = "fetchNSE"
    /\ \E current_price \in Offered :
         /\ Fetched(t, FirstNSE(quotes[future_to_isin[t]]), current_price)
         /\ IF current_price # None
            THEN /\ Return(t, current_price, "price_nse")
                 /\ UNCHANGED <<bse, faults>>
            ELSE /\ EnterBSE(t, quotes[future_to_isin[t]], 1)
                 /\ Fail
    /\ UNCHANGED <<envVars, mainVars, attempt, sleeps>>

\* lines 168-177: one BSE ticker's regularMarketPrice
FetchBSE(t) ==
    /\ pc[t] = "fetchBSE"
    /\ \E current_price \in Offered :
         /\ Fetched(t, bse[t], current_price)
         /\ IF current_price # None
            THEN /\ Return(t, current_price, "price_bse")
                 /\ UNCHANGED <<bse, faults>>
            ELSE /\ EnterBSE(t, quotes[future_to_isin[t]], bse[t] + 1)
                 /\ Fail
    /\ UNCHANGED <<envVars, mainVars, attempt, sleeps>>

\* line 162/163 or 171/172 raises
FetchRaises(t) ==
    /\ pc[t] \in {"fetchNSE", "fetchBSE"}
    /\ CanFail
    /\ Fail
    /\ Fetched(t, IF pc[t] = "fetchNSE" THEN FirstNSE(quotes[future_to_isin[t]]) ELSE bse[t], Raised)
    /\ OnException(t)
    /\ UNCHANGED <<envVars, mainVars, attempt, bse>>

\* time.sleep returns; continue: the next iteration of range(max_retries),
\* or line 187 when the range is exhausted
Sleep(t) ==
    /\ pc[t] = "sleep"
    /\ attempt' = [attempt EXCEPT ![t] = @ + 1]
    /\ tried' = [tried EXCEPT ![t] = <<>>]
    /\ IF attempt[t] + 1 < max_retries
       THEN /\ pc' = [pc EXCEPT ![t] = "search"]
            /\ UNCHANGED <<ret, reason>>
       ELSE Return(t, None, "loop_end")
    /\ UNCHANGED <<envVars, faults, mainVars, bse, stats, sleeps>>

(* ----------------------- the as_completed loop ------------------------ *)
\* variant: a finished future is yielded again
ReadyMut(t) == pc[t] \in {"returned", "collected"}

\* as_completed yields a future: it is done and was not yielded before
Ready(t) == pc[t] = "returned"

\* variant: only a price is recorded
RecordedMut(cache, isin, current_price) ==
    IF current_price = None THEN cache
    ELSE [i \in DOMAIN cache \cup {isin} |-> IF i = isin THEN current_price ELSE cache[i]]

\* line 222: price_cache[isin] = current_price
Recorded(cache, isin, current_price) ==
    [i \in DOMAIN cache \cup {isin} |-> IF i = isin THEN current_price ELSE cache[i]]

\* lines 215-233 for one finished future.  future.result() gives the value
\* fetch_current_price returned: the function catches every Exception of its
\* loop body, so the except clause of line 223 is not taken.
Collect(t) ==
    /\ mainpc = "collect"
    /\ Ready(t)
    /\ LET isin == future_to_isin[t]
           current_price == ret[t]
       IN  /\ dfPrice' = [r \in DOMAIN dfPrice |->
                            IF r \in IsinToRows(rows, isin) THEN current_price ELSE dfPrice[r]]
           /\ price_cache' = Recorded(price_cache, isin, current_price)
           /\ writes' = [writes EXCEPT ![isin] = @ + 1]
    /\ pc' = [pc EXCEPT ![t] = "collected"]
    /\ completed' = completed + 1
    /\ throttled' = IF (completed + 1) % throttle_every = 0 THEN throttled + 1 ELSE throttled
    /\ UNCHANGED <<envVars, faults, mainpc, future_to_isin, dfValue, attempt, bse, ret, reason,
                   stats, tried, sleeps>>

\* variant: the loop ends with the first future
AllDoneMut == \E t \in Tasks : pc[t] = "collected"

\* as_completed is exhausted
AllDone == \A t \in Tasks : pc[t] = "collected"

\* lines 235-242
Finish ==
    /\ mainpc = "collect"
    /\ AllDone
    /\ dfValue' = [r \in DOMAIN dfPrice |->
                     Balance(r) * (IF dfPrice[r] = None THEN Rate(r) ELSE dfPrice[r])]
    /\ mainpc' = "returned"
    /\ UNCHANGED <<envVars, faults, taskVars, future_to_isin, price_cache, writes, dfPrice,
                   completed, throttled>>

Next ==
    \/ Submit
    \/ Finish
    \/ \E t \in Tasks :
         \/ Start(t)
         \/ SearchRateLimited(t)
         \/ SearchBadStatus(t)
         \/ SearchRaises(t)
         \/ SearchOk(t)
         \/ FetchNSE(t)
         \/ FetchBSE(t)
         \/ FetchRaises(t)
         \/ Sleep(t)
         \/ Collect(t)

Spec == Init /\ [][Next]_vars
SpecBatch == InitBatch /\ [][Next]_vars
SpecLookup == InitLookup /\ [][Next]_vars

\* the steps of one worker's task: every call returns or raises, every sleep ends
Worker(t) ==
    /\ t \in Tasks
    /\ \/ Start(t)
       \/ SearchRateLimited(t)
       \/ SearchBadStatus(t)
       \/ SearchRaises(t)
       \/ SearchOk(t)
       \/ FetchNSE(t)
       \/ FetchBSE(t)
       \/ FetchRaises(t)
       \/ Sleep(t)

\* the steps of the main thread
Main == Submit \/ Finish \/ \E t \in Tasks : Collect(t)

\* a small batch under fair scheduling of the workers and the main thread
FairBatch ==
    /\ SpecBatch
    /\ WF_vars(Main)
    /\ \A t \in 1..MaxBatchRows : WF_vars(Worker(t))

(* ------------------------------ claims -------------------------------- *)
Done(t) == pc[t] \in {"returned", "collected"}
TasksOf(isin) == { t \in Tasks : future_to_isin[t] = isin }
HasNSE(qs) == \E k \in 1..Len(qs) : IsNSE(qs[k])

RECURSIVE Searches(_)
Searches(S) ==
    IF S = {} THEN 0
    ELSE LET t == CHOOSE x \in S : TRUE
         IN  stats[t].searches + Searches(S \ {t})

\* C1: when a run returns, the recorded results cover exactly the distinct
\* ISINs of the table: each has one entry of price_cache, a price or None,
\* which is what its lookup returned and what every row of that ISIN shows;
\* no other key is recorded; and whatever the lookups' outcomes, the run is
\* never stuck before it returns.
C1_CompleteMapping ==
    /\ mainpc = "returned" =>
         /\ DOMAIN price_cache = Range(rows)
         /\ \A i \in Range(rows) :
              /\ price_cache[i] \in {None} \cup prices
              /\ \A t \in TasksOf(i) : price_cache[i] = ret[t]
              /\ \A r \in 1..Len(rows) : rows[r] = i => dfPrice[r] = price_cache[i]
    /\ DOMAIN price_cache \subseteq Range(rows)
    /\ mainpc # "returned" => ENABLED Next

\* C1 witness: a returned run in which one lookup failed on every attempt and
\* another found a price
C1_Witness ==
    /\ mainpc = "returned"
    /\ \E t, u \in Tasks :
         /\ reason[t] \in {"rate_limited", "exception"}
         /\ price_cache[future_to_isin[t]] = None
         /\ reason[u] = "price_nse"
         /\ price_cache[future_to_isin[u]] \in prices

\* C2 (as stated): the search request of an ISIN is sent at most once
C2_Original == \A i \in Range(rows) : Searches(TasksOf(i)) <= 1

\* C2 (amended): every distinct ISIN has exactly one lookup however many rows
\* share it; the lookup sends one search request per attempt, at most
\* max_retries in all and at least one once it is done, and exactly one when
\* no search was rate-limited and no call raised.
C2_SearchBound ==
    \A i \in Range(rows) :
        /\ mainpc # "start" => Cardinality(TasksOf(i)) = 1
        /\ Searches(TasksOf(i)) <= max_retries
        /\ \A t \in TasksOf(i) :
             /\ Done(t) => stats[t].searches >= 1
             /\ stats[t].searches <= Len(sleeps[t]) + 1
             /\ stats[t].r429 = 0 /\ stats[t].raised = 0 => stats[t].searches <= 1

\* C2 witness: an ISIN of two rows whose lookup sent max_retries searches
C2_Witness ==
    \E i \in Range(rows) :
        /\ Cardinality(IsinToRows(rows, i)) >= 2
        /\ Searches(TasksOf(i)) = max_retries
        /\ \A t \in TasksOf(i) : Done(t)

\* a finished lookup all of whose searches answered 429
AlwaysRateLimited(t) == Done(t) /\ stats[t].searches >= 1 /\ stats[t].r429 = stats[t].searches

\* C3 (as stated): a lookup that is always rate-limited makes max_retries
\* further attempts after the first
C3_Original ==
    \A t \in Tasks : AlwaysRateLimited(t) =>
        /\ stats[t].searches = max_retries + 1
        /\ reason[t] = "rate_limited"

\* C3 (amended): a lookup that is always rate-limited makes max_retries
\* attempts in all, the first and max_retries - 1 retries, each retry after a
\* backoff sleep, and then returns None from the rate-limit branch.
C3_RetryBound ==
    \A t \in Tasks : AlwaysRateLimited(t) =>
        /\ stats[t].searches = max_retries
        /\ Len(sleeps[t]) = max_retries - 1
        /\ stats[t].fetches = 0
        /\ ret[t] = None
        /\ reason[t] = "rate_limited"

\* C3 witness: a lookup finished after nothing but 429 responses
C3_Witness == \E t \in Tasks : AlwaysRateLimited(t) /\ stats[t].r429 = max_retries

\* C4: a lookup whose search answers 200 with no candidate is finished by that
\* response: it returns None from the no-candidate branch, it has fetched no
\* price, the response caused no sleep and no further search.
C4_NoCandidates ==
    \A t \in Tasks :
        quotes[future_to_isin[t]] = <<>> /\ stats[t].r200 >= 1 =>
            /\ Done(t)
            /\ ret[t] = None
            /\ reason[t] = "no_quotes"
            /\ stats[t].fetches = 0
            /\ stats[t].r200 = 1
            /\ Len(sleeps[t]) = stats[t].r429 + stats[t].raised
            /\ stats[t].searches = Len(sleeps[t]) + 1

\* C4 witness: an empty response at the second attempt, after a 429
C4_Witness ==
    \E t \in Tasks :
        /\ quotes[future_to_isin[t]] = <<>>
        /\ stats[t].r200 = 1
        /\ stats[t].r429 = 1
        /\ Done(t)
        /\ stats[t].searches = 2

\* C5: when the response holds an NSE candidate (NSI, .NS), the first price
\* fetch of an attempt asks for the first such candidate wherever it stands;
\* a price it yields is the result; a BSE candidate (BSE, .BO) is asked for
\* only after the NSE candidate yielded no price, or when there is none.
C5_ExchangePreference ==
    \A t \in Tasks :
        LET qs == quotes[future_to_isin[t]]
            tr == tried[t]
        IN  /\ HasNSE(qs) /\ tr # <<>> =>
                 /\ IsNSE(qs[tr[1].idx])
                 /\ \A j \in 1..(tr[1].idx - 1) : ~IsNSE(qs[j])
                 /\ tr[1].out \in prices =>
                        Done(t) /\ ret[t] = tr[1].out /\ Len(tr) = 1
                 /\ \A k \in 2..Len(tr) : IsBSE(qs[tr[k].idx]) /\ tr[1].out = None
            /\ ~HasNSE(qs) => \A k \in 1..Len(tr) : IsBSE(qs[tr[k].idx])
            /\ Len(tr) <= stats[t].fetches

\* C5 witness: candidates [(BSE, .BO), (NSI, .NS)], the NSE price is the result
C5_Witness ==
    \E t \in Tasks :
        LET qs == quotes[future_to_isin[t]]
        IN  /\ Len(qs) = 2
            /\ IsBSE(qs[1])
            /\ IsNSE(qs[2])
            /\ Done(t)
            /\ tried[t] # <<>>
            /\ tried[t][1].idx = 2
            /\ ret[t] = tried[t][1].out
            /\ ret[t] \in prices

\* C6: at most max_workers lookups are in flight (started and not returned,
\* a backoff sleep included).
C6_ConcurrencyCap ==
    Cardinality({ t \in Tasks : pc[t] \in {"search", "sleep", "fetchNSE", "fetchBSE"} })
        <= max_workers

\* C6 witness: max_workers lookups in flight, one of them asleep, one queued
C6_Witness ==
    /\ Cardinality({ t \in Tasks : pc[t] \in {"search", "sleep", "fetchNSE", "fetchBSE"} })
           = max_workers
    /\ \E t \in Tasks : pc[t] = "sleep"
    /\ \E t \in Tasks : pc[t] = "queued"

\* C7: under fair scheduling every run returns, and when it has returned every
\* lookup has returned and been collected.
C7_Termination ==
    /\ <>(mainpc = "returned")
    /\ [](mainpc = "returned" =>
            /\ Tasks # {}
            /\ \A t \in Tasks : pc[t] = "collected" /\ reason[t] # "none")

\* C7 witness: a returned run of two lookups, one of which slept
C7_Witness ==
    /\ mainpc = "returned"
    /\ Cardinality(Tasks) >= 2
    /\ \E t \in Tasks : sleeps[t] # <<>>

\* C8 (as stated): a lookup that ends on a transient failure, an exception or
\* a bad status other than 429, ends at its last attempt
C8_Original ==
    \A t \in Tasks :
        Done(t) /\ reason[t] \in {"exception", "status"} => attempt[t] = max_retries - 1

\* C8 (amended): a call that raises is retried after a backoff sleep while
\* attempts remain, and the lookup returns None from the except clause only
\* at attempt max_retries - 1, after max_retries searches; a bad status other
\* than 429 is not retried: the lookup returns None on that response.
C8_TransientRetry ==
    \A t \in Tasks :
        /\ reason[t] = "exception" =>
             /\ attempt[t] = max_retries - 1
             /\ stats[t].searches = max_retries
             /\ ret[t] = None
        /\ Len(sleeps[t]) = stats[t].r429 + stats[t].raised
                             - (IF reason[t] \in {"exception", "rate_limited"} THEN 1 ELSE 0)
        /\ stats[t].rbad >= 1 =>
             /\ Done(t)
             /\ reason[t] = "status"
             /\ ret[t] = None
             /\ stats[t].rbad = 1
             /\ stats[t].searches = attempt[t] + 1

\* C8 witness: a lookup given up after an exception at every attempt
C8_Witness ==
    \E t \in Tasks : reason[t] = "exception" /\ stats[t].raised = max_retries

\* C9: every backoff sleep after attempt a lasts retry_delay * 2^a, after a
\* 429 and after an exception alike, and none follows the last attempt.
C9_Backoff ==
    \A t \in Tasks : \A k \in 1..Len(sleeps[t]) :
        /\ sleeps[t][k].delay = retry_delay * 2 ^ sleeps[t][k].attempt
        /\ sleeps[t][k].attempt < max_retries - 1
        /\ sleeps[t][k].attempt = k - 1

\* C9 witness: a sleep after a 429 and a sleep after an exception
C9_Witness ==
    \E t \in Tasks :
        /\ Len(sleeps[t]) = max_retries - 1
        /\ stats[t].r429 = 1
        /\ stats[t].raised = 1

\* C10: the price_cache slot of an ISIN is written at most once and, when the
\* run has returned, exactly once; the ISIN has one task; once the slot is
\* written its task is collected and the slot holds what the task returned.
C10_WriteOnce ==
    \A i \in Range(rows) :
        /\ writes[i] <= 1
        /\ mainpc # "start" => Cardinality(TasksOf(i)) = 1
        /\ i \in DOMAIN price_cache <=> writes[i] = 1
        /\ i \in DOMAIN price_cache =>
             \A t \in TasksOf(i) : pc[t] = "collected" /\ price_cache[i] = ret[t]
        /\ mainpc = "returned" => writes[i] = 1
    /\ completed = Cardinality({ t \in Tasks : pc[t] = "collected" })

\* C10 witness: a returned run over a table with a repeated ISIN and a second
\* ISIN, a failure and a price among the results
C10_Witness ==
    /\ mainpc = "returned"
    /\ Len(rows) > Cardinality(Range(rows))
    /\ Cardinality(Range(rows)) >= 2
    /\ \E i, j \in Range(rows) : price_cache[i] = None /\ price_cache[j] \in prices

====
